---- MODULE Spec2Model ----
(***************************************************************************)
(* Model of the LTE SRS toolkit (package lte_srs): the validated           *)
(* configuration record, the Gold-sequence generator, the hopping          *)
(* calculator, the frequency mapper, the orchestrator generate_srs and the *)
(* correlation metric.                                                     *)
(*                                                                         *)
(* Every operation of the package is a function of its arguments.  A call  *)
(* is modelled by three variables: op names the function called ("idle"    *)
(* before the call), args holds the arguments and ret what the call gave   *)
(* back: ret.raised is "" for a normal return and the exception's class    *)
(* otherwise.  config is the set of SRSConfig objects the caller holds     *)
(* (none or one).                                                          *)
(*                                                                         *)
(* numpy arrays are functions over 0..len-1; Python lists handed to or     *)
(* returned from an operation are shown as sequences (element k of the     *)
(* array at position k+1).  Python's // and % on the operands used here    *)
(* agree with \div and % of Integers.                                      *)
(***************************************************************************)
EXTENDS Integers, Sequences, FiniteSets, TLC

VARIABLES config, op, args, ret

vars == <<config, op, args, ret>>

Idle == [raised |-> "", value |-> <<>>]

Returned(v) == [raised |-> "", value |-> v]

Raised(cls, msg) == [raised |-> cls, msg |-> msg]

Min(a, b) == IF a <= b THEN a ELSE b

Max(a, b) == IF a >= b THEN a ELSE b

(***************************************************************************)
(* numpy indexing: a negative index counts from the end of the array.      *)
(***************************************************************************)
At(arr, len, i) == arr[IF i < 0 THEN i + len ELSE i]

(***************************************************************************)
(* generate_prs: the two shift-register arrays of length + 31 entries.     *)
(***************************************************************************)
MaxLen == 36

PrsSeeds == {0, 1, 5, 513, 1073741824, 1431655765, 2147483647}

Zeros(len) == [k \in 0..(len - 1) |-> 0]

\* One pass of the body of `for n in range(1, length + 31)`, which fills
\* x1.  st.x is the array; st.wrapped collects the values the loop read
\* through a negative index (n - 3 for n < 3, n - 31 for n < 31).
X1Step(st, n, len) ==
    LET a == At(st.x, len, n - 3)
        b == At(st.x, len, n - 31)
        w == (IF n - 3 < 0 THEN {a} ELSE {}) \cup (IF n - 31 < 0 THEN {b} ELSE {})
    IN  [x |-> [st.x EXCEPT ![n] = (a + b) % 2], wrapped |-> st.wrapped \cup w]

\* The passes for n = lo, lo + 1, ..., hi - 1, in that order (an array
\* without entries has nothing to fill).
RECURSIVE X1Loop(_, _, _, _)
X1Loop(st, lo, hi, len) ==
    IF lo >= hi \/ DOMAIN st.x = {} THEN st
    ELSE IF hi = lo + 1 THEN X1Step(st, lo, len)
    ELSE LET mid == (lo + hi) \div 2
         IN  X1Loop(X1Loop(st, lo, mid, len), mid, hi, len)

\* np.empty in place of np.zeros: the entries start as whatever was there.
X1FillUninitialised(length) ==
    X1Loop([x |-> [[k \in 0..(length + 30) |-> 1] EXCEPT ![0] = 1], wrapped |-> {}],
           1, length + 31, length + 31)

X1Fill(length) ==
    X1Loop([x |-> [Zeros(length + 31) EXCEPT ![0] = 1], wrapped |-> {}],
           1, length + 31, length + 31)

\* (c_init >> n) & 1
SeedBit(c_init, n) == (c_init \div (2 ^ n)) % 2

\* The loop `for n in range(31)` that loads the seed into x2.
X2Seeded(c_init, length) ==
    [k \in 0..(length + 30) |-> IF k < 31 THEN SeedBit(c_init, k) ELSE 0]

\* One pass of the body of `for n in range(31, length + 31)`, which extends x2.
X2Step(x2, n, len) ==
    [x2 EXCEPT ![n] = (At(x2, len, n - 3) + At(x2, len, n - 2)
                       + At(x2, len, n - 1) + At(x2, len, n - 31)) % 2]

\* The passes for n = lo, lo + 1, ..., hi - 1, in that order.
RECURSIVE X2Loop(_, _, _, _)
X2Loop(x2, lo, hi, len) ==
    IF lo >= hi \/ DOMAIN x2 = {} THEN x2
    ELSE IF hi = lo + 1 THEN X2Step(x2, lo, len)
    ELSE LET mid == (lo + hi) \div 2
         IN  X2Loop(X2Loop(x2, lo, mid, len), mid, hi, len)

X2Fill(c_init, length) == X2Loop(X2Seeded(c_init, length), 31, length + 31, length + 31)

\* The sum without the reduction modulo 2.
PrsCombineNoMod(a, b) == a + b

\* c = (x1[31:] + x2[31:]) % 2
PrsCombine(a, b) == (a + b) % 2

generate_prs(c_init, length) ==
    LET x1 == X1Fill(length).x
        x2 == X2Fill(c_init, length)
    IN  [k \in 1..length |-> PrsCombine(x1[30 + k], x2[30 + k])]

InitPrs ==
    /\ config = {}
    /\ op = "idle"
    /\ args \in [c_init : PrsSeeds, length : 0..MaxLen]
    /\ ret = Idle

CallGeneratePrs ==
    /\ op = "idle"
    /\ op' = "generate_prs"
    /\ ret' = Returned(generate_prs(args.c_init, args.length))
    /\ UNCHANGED <<config, args>>

NextPrs == CallGeneratePrs

SpecPrs == InitPrs /\ [][NextPrs]_vars

(***************************************************************************)
(* The recurrences of the Gold sequence written out index by index, a term *)
(* with a negative index counting as 0.  RefX1(N) and RefX2(s, N) are the  *)
(* first N terms, term n at position n + 1.                                *)
(***************************************************************************)
RefTerm(t, i) == IF i < 0 THEN 0 ELSE t[i + 1]

RefX1Next(t) ==
    LET n == Len(t)
    IN  Append(t, IF n = 0 THEN 1
                  ELSE IF n < 3 THEN 0
                  ELSE (RefTerm(t, n - 3) + RefTerm(t, n - 31)) % 2)

\* t extended by k further terms (t is evaluated before it is extended).
RECURSIVE RefX1Ext(_, _)
RefX1Ext(t, k) ==
    IF k <= 0 \/ Len(t) < 0 THEN t
    ELSE IF k = 1 THEN RefX1Next(t)
    ELSE RefX1Ext(RefX1Ext(t, k \div 2), k - (k \div 2))

RefX1(N) == RefX1Ext(<<>>, N)

RefX2Next(t, seed) ==
    LET n == Len(t)
    IN  Append(t, IF n < 31 THEN (seed \div (2 ^ n)) % 2
                  ELSE (RefTerm(t, n - 3) + RefTerm(t, n - 2)
                        + RefTerm(t, n - 1) + RefTerm(t, n - 31)) % 2)

RECURSIVE RefX2Ext(_, _, _)
RefX2Ext(t, seed, k) ==
    IF k <= 0 \/ Len(t) < 0 THEN t
    ELSE IF k = 1 THEN RefX2Next(t, seed)
    ELSE RefX2Ext(RefX2Ext(t, seed, k \div 2), seed, k - (k \div 2))

RefX2(seed, N) == RefX2Ext(<<>>, seed, N)

\* C3: generate_prs(seed, L) has length L, holds only 0 and 1, and its first
\* L' elements are generate_prs(seed, L') for every L' < L.
C3_PrsBinaryPrefix ==
    op = "generate_prs" =>
        /\ Len(ret.value) = args.length
        /\ \A k \in 1..Len(ret.value) : ret.value[k] \in {0, 1}
        /\ \A shorter \in 0..(args.length - 1) :
              SubSeq(ret.value, 1, shorter) = generate_prs(args.c_init, shorter)

C3_Witness ==
    /\ op = "generate_prs"
    /\ args.length >= 32
    /\ \E j, k \in 1..Len(ret.value) : ret.value[j] = 0 /\ ret.value[k] = 1

\* C10: element n of generate_prs(seed, L) is (x1[n+31] + x2[n+31]) mod 2 of
\* the recurrences above, and every value the x1 loop read through a wrapped
\* negative index was 0.
C10_PrsMatchesRecurrence ==
    op = "generate_prs" =>
        LET r1 == RefX1(args.length + 31)
            r2 == RefX2(args.c_init, args.length + 31)
        IN  /\ Len(ret.value) = args.length
            /\ \A n \in 0..(args.length - 1) :
                  ret.value[n + 1] = (r1[n + 32] + r2[n + 32]) % 2
            /\ X1Fill(args.length).wrapped \subseteq {0}

C10_Witness ==
    /\ op = "generate_prs"
    /\ args.length >= 32
    /\ args.c_init = 2147483647
    /\ X1Fill(args.length).wrapped = {0}
    /\ \E k \in 1..Len(ret.value) : ret.value[k] = 1

(***************************************************************************)
(* SRSConfig.  cyclic_shift, a float in the code, is counted in units of   *)
(* pi/4; n_zc, an Optional[int], is <<>> for None and <<n>> for n.         *)
(***************************************************************************)
CellIds == {-1, 0, 37, 503, 504}

Combs == {-1, 0, 1, 2}

BandwidthConfigs == {-1, 0, 2, 7}

SubframeConfigs == {-1, 0, 2, 3}

BHops == {-1, 1}

SrsBandwidths == {-1, 0, 3}

UlRbs == {0, 50, 100}

CyclicShifts == {0, 2}

ZcLengths == {<<>>, <<0>>, <<13>>}

ConfigArgs ==
    [cell_id : CellIds, bandwidth_config : BandwidthConfigs,
     subframe_config : SubframeConfigs, b_hop : BHops,
     group_hopping_enabled : BOOLEAN, sequence_hopping_enabled : BOOLEAN,
     transmission_comb : Combs, cyclic_shift : CyclicShifts,
     srs_bandwidth : SrsBandwidths, n_ul_rb : UlRbs, n_zc : ZcLengths]

\* __post_init__ with the last check written `n_ul_rb < 0`.
PostInitZeroRbAccepted(self) ==
    IF ~(0 <= self.cell_id /\ self.cell_id <= 503)
      THEN "cell_id must be between 0 and 503"
    ELSE IF self.transmission_comb \notin {0, 1}
      THEN "transmission_comb (k_tc) must be 0 or 1"
    ELSE IF self.bandwidth_config < 0
      THEN "bandwidth_config (B_srs) must be non-negative"
    ELSE IF self.subframe_config < 0
      THEN "subframe_config (T_srs) must be non-negative"
    ELSE IF self.b_hop < 0
      THEN "b_hop must be non-negative"
    ELSE IF self.srs_bandwidth < 0
      THEN "srs_bandwidth (N_b) must be non-negative"
    ELSE IF self.n_ul_rb < 0
      THEN "n_ul_rb must be positive"
    ELSE ""

\* __post_init__: the message of the ValueError raised, "" when none is.
PostInit(self) ==
    IF ~(0 <= self.cell_id /\ self.cell_id <= 503)
      THEN "cell_id must be between 0 and 503"
    ELSE IF self.transmission_comb \notin {0, 1}
      THEN "transmission_comb (k_tc) must be 0 or 1"
    ELSE IF self.bandwidth_config < 0
      THEN "bandwidth_config (B_srs) must be non-negative"
    ELSE IF self.subframe_config < 0
      THEN "subframe_config (T_srs) must be non-negative"
    ELSE IF self.b_hop < 0
      THEN "b_hop must be non-negative"
    ELSE IF self.srs_bandwidth < 0
      THEN "srs_bandwidth (N_b) must be non-negative"
    ELSE IF self.n_ul_rb <= 0
      THEN "n_ul_rb must be positive"
    ELSE ""

\* The configurations that can be constructed from ConfigArgs.
ValidConfigs == {c \in ConfigArgs : PostInit(c) = ""}

\* is_active_subframe without the test for a periodicity of 0 (which Python
\* then divides by: the zero is read as "every subframe").
IsActiveNoDisabledTest(self, subframe) ==
    IF self.subframe_config = 0 THEN TRUE
    ELSE subframe % self.subframe_config = 0

is_active_subframe(self, subframe) ==
    IF self.subframe_config = 0 THEN FALSE
    ELSE subframe % self.subframe_config = 0

DefaultZcLength == 839

zc_length(self) == IF self.n_zc = <<>> THEN DefaultZcLength ELSE self.n_zc[1]

alpha(self) == self.cyclic_shift

\* bandwidth_in_subcarriers without the cap at the uplink bandwidth.
BandwidthUncapped(self) ==
    (self.srs_bandwidth + 1) * 12 * (2 ^ Max(self.bandwidth_config, 0))

bandwidth_in_subcarriers(self) ==
    LET scaling == 2 ^ Max(self.bandwidth_config, 0)
        raw == (self.srs_bandwidth + 1) * 12 * scaling
        max_sc == self.n_ul_rb * 12
    IN  Min(raw, max_sc)

comb_spacing(self) == 2

MaxSubframe == 4

InitConfig ==
    /\ config = {}
    /\ op = "idle"
    /\ args = <<>>
    /\ ret = Idle

\* SRSConfig(...): the dataclass stores the fields and runs __post_init__.
Construct(fields) ==
    /\ op' = "SRSConfig"
    /\ args' = fields
    /\ LET msg == PostInit(fields)
       IN  IF msg = ""
             THEN config' = {fields} /\ ret' = Returned(fields)
             ELSE config' = {} /\ ret' = Raised("ValueError", msg)

CallBandwidth(self) ==
    /\ op' = "bandwidth_in_subcarriers"
    /\ args' = <<>>
    /\ ret' = Returned(bandwidth_in_subcarriers(self))
    /\ UNCHANGED config

CallIsActive(self, subframe) ==
    /\ op' = "is_active_subframe"
    /\ args' = [subframe |-> subframe]
    /\ ret' = Returned(is_active_subframe(self, subframe))
    /\ UNCHANGED config

NextConfig ==
    \/ op = "idle" /\ \E fields \in ConfigArgs : Construct(fields)
    \/ \E self \in config : CallBandwidth(self)
    \/ \E self \in config, subframe \in 0..MaxSubframe : CallIsActive(self, subframe)

SpecConfig == InitConfig /\ [][NextConfig]_vars

\* The ranges of a configuration's fields.
InRange(c) ==
    /\ c.cell_id \in 0..503
    /\ c.transmission_comb \in {0, 1}
    /\ c.bandwidth_config >= 0
    /\ c.subframe_config >= 0
    /\ c.b_hop >= 0
    /\ c.srs_bandwidth >= 0
    /\ c.n_ul_rb > 0

\* C4: constructing a configuration raises a ValueError whenever a field is
\* out of range, and every configuration object that exists is in range.
C4_ValidationRejectsOutOfRange ==
    /\ \A c \in config : InRange(c)
    /\ op = "SRSConfig" =>
          /\ ~InRange(args) => ret.raised = "ValueError" /\ config = {}
          /\ InRange(args) => ret.raised = "" /\ config = {args}

C4_Witness ==
    /\ op = "SRSConfig"
    /\ ret.raised = "ValueError"
    /\ args.n_ul_rb = 0
    /\ InRange([args EXCEPT !.n_ul_rb = 1])

\* C7: M_sc = min((N_b+1)*12*2^bandwidth_config, 12*resource_blocks), a
\* positive multiple of 12 that is at most 12 times the resource-block count;
\* 48 for bandwidth-config 2, N_b 0 and 50 resource blocks.
C7_BandwidthInSubcarriers ==
    op = "bandwidth_in_subcarriers" =>
        \A c \in config :
            LET full == (c.srs_bandwidth + 1) * 12 * (2 ^ c.bandwidth_config)
                cap == c.n_ul_rb * 12
            IN  /\ ret.value = (IF full <= cap THEN full ELSE cap)
                /\ ret.value > 0
                /\ ret.value % 12 = 0
                /\ ret.value <= 12 * c.n_ul_rb
                /\ (c.bandwidth_config = 2 /\ c.srs_bandwidth = 0 /\ c.n_ul_rb = 50)
                      => ret.value = 48

C7_Witness ==
    /\ op = "bandwidth_in_subcarriers"
    /\ ret.value = 48
    /\ \E c \in config :
          c.bandwidth_config = 2 /\ c.srs_bandwidth = 0 /\ c.n_ul_rb = 50

(***************************************************************************)
(* group_and_sequence_hopping                                              *)
(***************************************************************************)
MaxSlot == 3

\* x % 2**31, computed on the two halves of x so that no intermediate value
\* leaves the range of the integers at hand.
Mod2Pow31(x) == (x % 1073741824) + 1073741824 * ((x \div 1073741824) % 2)

HoppingSeed(self, slot_index) ==
    Mod2Pow31(((slot_index \div 2) + 1) * (self.cell_id + 1) * (2 ^ 9) + self.cell_id)

\* sum(int(c[start + i]) << i for i in range(8)), c a sequence from position 1
RECURSIVE ByteAt(_, _, _)
ByteAt(c, start, i) ==
    IF i >= 8 THEN 0 ELSE c[start + i + 1] * (2 ^ i) + ByteAt(c, start, i + 1)

\* f_gh computed as if group hopping were always enabled.
GroupHoppingOffsetFlagIgnored(self, slot_index) ==
    LET c == generate_prs(HoppingSeed(self, slot_index), 8 * (slot_index + 1))
    IN  ByteAt(c, 8 * slot_index, 0) % 30

\* f_gh
GroupHoppingOffset(self, slot_index) ==
    IF self.group_hopping_enabled
      THEN LET c_init == HoppingSeed(self, slot_index)
               c == generate_prs(c_init, 8 * (slot_index + 1))
               start == 8 * slot_index
           IN  ByteAt(c, start, 0) % 30
      ELSE 0

\* The sum without the reduction modulo 30.
SequenceNumberNoMod(group_number, seq_shift) == group_number + seq_shift

SequenceNumber(group_number, seq_shift) == (group_number + seq_shift) % 30

group_and_sequence_hopping(self, slot_index) ==
    LET f_ss == self.cell_id % 30
        f_gh == GroupHoppingOffset(self, slot_index)
        group_number == (f_ss + f_gh) % 30
        seq_shift == IF self.sequence_hopping_enabled THEN f_gh % 30 ELSE 0
    IN  [group_number |-> group_number,
         sequence_number |-> SequenceNumber(group_number, seq_shift),
         f_gh |-> f_gh, f_ss |-> f_ss]

\* Every cell identity and both flags; the other fields as the test
\* harness's build_configurations sets them.
HopConfigs ==
    {c \in [cell_id : 0..503, bandwidth_config : {2}, subframe_config : {2},
            b_hop : {1}, group_hopping_enabled : BOOLEAN,
            sequence_hopping_enabled : BOOLEAN, transmission_comb : {0},
            cyclic_shift : {0}, srs_bandwidth : {0}, n_ul_rb : {50},
            n_zc : {<<>>}] : PostInit(c) = ""}

InitHop ==
    /\ \E c \in HopConfigs : config = {c}
    /\ op = "idle"
    /\ args \in [slot_index : 0..MaxSlot]
    /\ ret = Idle

CallHopping(self) ==
    /\ op' = "group_and_sequence_hopping"
    /\ ret' = Returned(group_and_sequence_hopping(self, args.slot_index))
    /\ UNCHANGED <<config, args>>

NextHop == op = "idle" /\ \E self \in config : CallHopping(self)

SpecHop == InitHop /\ [][NextHop]_vars

\* C2: group_number and sequence_number are in 0..29 for every cell identity,
\* flag combination and slot.
C2_HoppingNumbersInRange ==
    op = "group_and_sequence_hopping" =>
        /\ ret.value.group_number \in 0..29
        /\ ret.value.sequence_number \in 0..29

C2_Witness ==
    /\ op = "group_and_sequence_hopping"
    /\ args.slot_index >= 1
    /\ \E c \in config : c.group_hopping_enabled /\ c.sequence_hopping_enabled
    /\ ret.value.f_gh > 0
    /\ ret.value.group_number + ret.value.f_gh >= 30

ZeroSample == [mag |-> 0, num |-> 0, den |-> 1]

UnitSample(num, den) == [mag |-> 1, num |-> num, den |-> den]

\* generate_zadoff_chu: exp(-1j * pi * u * n * (n + 1) / N_zc) for n in
\* arange(N_zc), which is empty when N_zc <= 0.
generate_zadoff_chu(u, N_zc) ==
    [k \in 1..Max(N_zc, 0) |-> UnitSample(-(u * (k - 1) * k), N_zc)]

\* apply_cyclic_shift: seq * exp(1j * alpha * n), alpha in units of pi/4.
apply_cyclic_shift(seq, shift) ==
    [k \in 1..Len(seq) |->
        IF seq[k].mag = 0 THEN seq[k]
        ELSE [mag |-> seq[k].mag,
              num |-> 4 * seq[k].num + shift * (k - 1) * seq[k].den,
              den |-> 4 * seq[k].den]]

\* np.fft.fftshift in place of np.fft.ifftshift: the roll by +(n // 2).
FftShift(grid, n) == [i \in 0..(n - 1) |-> grid[(i - (n \div 2)) % n]]

\* np.fft.ifftshift: np.roll by -(n // 2).
IfftShift(grid, n) == [i \in 0..(n - 1) |-> grid[(i + (n \div 2)) % n]]

\* The grid after the loop `for m, value in enumerate(seq)`: bin k holds the
\* value of the one m with k0 + m * spacing = k, when there is one.
GridShifted(seq, k0, spacing, n_fft) ==
    [k \in 0..(n_fft - 1) |->
        IF k >= k0 /\ (k - k0) % spacing = 0 /\ (k - k0) \div spacing < Len(seq)
          THEN seq[((k - k0) \div spacing) + 1]
          ELSE ZeroSample]

map_to_frequency_grid(seq, self, n_fft) ==
    LET spacing == comb_spacing(self)
        center == n_fft \div 2
        m_sc == Len(seq)
        k0 == center - (m_sc \div 2) * spacing + self.transmission_comb
    IN  [grid |-> IfftShift(GridShifted(seq, k0, spacing, n_fft), n_fft), k0 |-> k0]

MaxSeqLen == 4

MaxFft == 8

MapSamples == {ZeroSample, UnitSample(0, 1), UnitSample(1, 2)}

MapSeqs == UNION {[1..n -> MapSamples] : n \in 0..MaxSeqLen}

\* Both combs; the other fields as the test harness's build_configurations
\* sets them.
MapConfigs == {c \in HopConfigs : c.cell_id = 0} \cup
              {[c EXCEPT !.transmission_comb = 1] : c \in {d \in HopConfigs : d.cell_id = 0}}

InitMap ==
    /\ \E c \in MapConfigs : config = {c}
    /\ op = "idle"
    /\ args \in [seq : MapSeqs, n_fft : 0..MaxFft]
    /\ ret = Idle

CallMap(self) ==
    /\ op' = "map_to_frequency_grid"
    /\ ret' = Returned(map_to_frequency_grid(args.seq, self, args.n_fft))
    /\ UNCHANGED <<config, args>>

NextMap == op = "idle" /\ \E self \in config : CallMap(self)

SpecMap == InitMap /\ [][NextMap]_vars

NonZeroBins(grid) == {k \in DOMAIN grid : grid[k] # ZeroSample}

\* C5: for a sequence of non-zero elements, k0 = n_fft div 2 - (M_sc div 2)*2
\* + comb; element m sits at bin (k0 + 2m - n_fft div 2) mod n_fft exactly when
\* 0 <= k0 + 2m < n_fft; every other bin is zero; the grid has M_sc non-zero
\* bins when every index is in range and fewer otherwise.
C5_CombMapping ==
    (op = "map_to_frequency_grid" /\ \A j \in 1..Len(args.seq) : args.seq[j] # ZeroSample) =>
        \A c \in config :
            LET n == args.n_fft
                M == Len(args.seq)
                k0 == (n \div 2) - (M \div 2) * 2 + c.transmission_comb
                placed == {m \in 0..(M - 1) : 0 <= k0 + 2 * m /\ k0 + 2 * m < n}
                bin(m) == (k0 + 2 * m - (n \div 2)) % n
                grid == ret.value.grid
            IN  /\ ret.value.k0 = k0
                /\ DOMAIN grid = 0..(n - 1)
                /\ \A m \in placed : grid[bin(m)] = args.seq[m + 1]
                /\ \A k \in DOMAIN grid : k \notin {bin(m) : m \in placed} => grid[k] = ZeroSample
                /\ Cardinality(NonZeroBins(grid)) = Cardinality(placed)
                /\ (Cardinality(placed) = M) => Cardinality(NonZeroBins(grid)) = M
                /\ (Cardinality(placed) < M) => Cardinality(NonZeroBins(grid)) < M

C5_Witness ==
    /\ op = "map_to_frequency_grid"
    /\ Len(args.seq) = 3
    /\ args.n_fft = 7
    /\ \A j \in 1..Len(args.seq) : args.seq[j] # ZeroSample
    /\ args.seq[1] # args.seq[2]
    /\ \E c \in config : c.transmission_comb = 1
    /\ Cardinality(NonZeroBins(ret.value.grid)) = 3

(***************************************************************************)
(* generate_srs                                                            *)
(***************************************************************************)
DefaultNfft == 2048

SmallNfft == 64

\* base_seq[:m_sc] for m_sc >= 0: the first m_sc samples, or all of them when
\* there are fewer.
Truncate(seq, m_sc) == SubSeq(seq, 1, Min(m_sc, Len(seq)))

\* shifted_seq, the sequence generate_srs hands to map_to_frequency_grid.
SrsSequence(self, subframe_index) ==
    LET slot_index == subframe_index * 2
        hopping == group_and_sequence_hopping(self, slot_index)
        root_index == hopping.sequence_number
        N_zc == zc_length(self)
        base_seq == generate_zadoff_chu(root_index, N_zc)
        m_sc == bandwidth_in_subcarriers(self)
        truncated_seq == Truncate(base_seq, m_sc)
    IN  apply_cyclic_shift(truncated_seq, alpha(self))

\* The result of np.fft.ifft is kept as the grid it transforms.
generate_srs(self, subframe_index, n_fft) ==
    IF ~is_active_subframe(self, subframe_index)
      THEN Raised("ValueError",
                  <<"Subframe", subframe_index, "is not active for this UE (T_srs=",
                    self.subframe_config, ").">>)
      ELSE LET slot_index == subframe_index * 2
               hopping == group_and_sequence_hopping(self, slot_index)
               root_index == hopping.sequence_number
               m_sc == bandwidth_in_subcarriers(self)
               shifted_seq == SrsSequence(self, subframe_index)
               mapped == map_to_frequency_grid(shifted_seq, self, n_fft)
               time_signal == [ifft |-> mapped.grid]
               info == [subframe_index |-> subframe_index,
                        slot_index |-> slot_index,
                        root_index |-> root_index,
                        alpha |-> alpha(self),
                        m_sc |-> m_sc,
                        comb |-> self.transmission_comb,
                        n_fft |-> n_fft,
                        k0 |-> mapped.k0,
                        hopping |-> hopping]
           IN  Returned([signal |-> time_signal, info |-> info])

InitSrs ==
    /\ \E c \in ValidConfigs : config = {c}
    /\ op = "idle"
    /\ args \in [subframe_index : 0..MaxSubframe, n_fft : {SmallNfft, DefaultNfft}]
    /\ ret = Idle

CallGenerateSrs(self) ==
    /\ op' = "generate_srs"
    /\ ret' = generate_srs(self, args.subframe_index, args.n_fft)
    /\ UNCHANGED <<config, args>>

NextSrs == op = "idle" /\ \E self \in config : CallGenerateSrs(self)

SpecSrs == InitSrs /\ [][NextSrs]_vars

\* C1: generate_srs raises a ValueError, returning nothing, when the
\* periodicity is 0 or subframe_index mod periodicity is not 0; otherwise it
\* returns a (signal, MappingInfo) pair.
C1_InactiveSubframeRejected ==
    op = "generate_srs" =>
        \A c \in config :
            IF c.subframe_config = 0 \/ args.subframe_index % c.subframe_config # 0
              THEN ret.raised = "ValueError" /\ "value" \notin DOMAIN ret
              ELSE /\ ret.raised = ""
                   /\ DOMAIN ret.value = {"signal", "info"}
                   /\ ret.value.info.subframe_index = args.subframe_index

C1_Witness ==
    /\ op = "generate_srs"
    /\ args.subframe_index = 3
    /\ \E c \in config : c.subframe_config = 2
    /\ ret.raised = "ValueError"

C1_WitnessActive ==
    /\ op = "generate_srs"
    /\ args.subframe_index = 4
    /\ \E c \in config : c.subframe_config = 2
    /\ ret.raised = ""

\* C9: on success the sequence handed to the frequency mapper has
\* MappingInfo.m_sc = bandwidth_in_subcarriers() samples, and MappingInfo.k0 =
\* n_fft div 2 - (m_sc div 2)*2 + comb.
C9_MappedLengthIsMsc ==
    (op = "generate_srs" /\ ret.raised = "") =>
        \A c \in config :
            LET info == ret.value.info
            IN  /\ info.m_sc = bandwidth_in_subcarriers(c)
                /\ Len(SrsSequence(c, args.subframe_index)) = info.m_sc
                /\ info.k0 = (info.n_fft \div 2) - (info.m_sc \div 2) * 2 + info.comb

\* A configuration whose M_sc (1200) exceeds the default Zadoff-Chu length.
C9_DefaultLengthShortfall ==
    /\ op = "generate_srs"
    /\ ret.raised = ""
    /\ args.n_fft = DefaultNfft
    /\ \E c \in config :
          /\ c.n_zc = <<>>
          /\ ret.value.info.m_sc = 1200
          /\ Len(SrsSequence(c, args.subframe_index)) = DefaultZcLength
          /\ ret.value.info.k0 = 186 + c.transmission_comb

(***************************************************************************)
(* normalized_cross_correlation.  The signals are sequences of complex     *)
(* numbers <<re, im>> with integer parts.  The float returned is kept as   *)
(* the fraction under its square root: sq_num / sq_den is the square of    *)
(* the value, and 0.0 is 0 / 1.                                            *)
(***************************************************************************)
MaxSigLen == 2

SigSamples == {<<0, 0>>, <<1, 0>>, <<0, 1>>, <<-1, 1>>}

Signals == UNION {[1..n -> SigSamples] : n \in 0..MaxSigLen}

FloatZero == [sq_num |-> 0, sq_den |-> 1]

FloatSqrt(num, den) == IF num = 0 THEN FloatZero ELSE [sq_num |-> num, sq_den |-> den]

\* np.linalg.norm(a) ** 2
RECURSIVE NormSq(_)
NormSq(a) ==
    IF a = <<>> THEN 0
    ELSE a[1][1] * a[1][1] + a[1][2] * a[1][2] + NormSq(Tail(a))

\* np.correlate(a, b, mode="valid")[0] for len(a) = len(b) > 0:
\* sum(a[n] * conj(b[n])), as <<re, im>>
RECURSIVE CorrelateValid(_, _)
CorrelateValid(a, b) ==
    IF a = <<>> THEN <<0, 0>>
    ELSE LET rest == CorrelateValid(Tail(a), Tail(b))
         IN  <<a[1][1] * b[1][1] + a[1][2] * b[1][2] + rest[1],
               a[1][2] * b[1][1] - a[1][1] * b[1][2] + rest[2]>>

\* normalized_cross_correlation with the zero-norm test ahead of the length
\* test.
NccZeroTestFirst(a, b) ==
    IF NormSq(a) = 0 \/ NormSq(b) = 0 THEN Returned(FloatZero)
    ELSE IF Len(a) # Len(b)
      THEN Raised("ValueError", "Signals must be the same length for correlation")
    ELSE LET corr == CorrelateValid(a, b)
         IN  Returned(FloatSqrt(corr[1] * corr[1] + corr[2] * corr[2],
                                NormSq(a) * NormSq(b)))

normalized_cross_correlation(a, b) ==
    IF Len(a) # Len(b)
      THEN Raised("ValueError", "Signals must be the same length for correlation")
    ELSE LET norm_a_sq == NormSq(a)
             norm_b_sq == NormSq(b)
         IN  IF norm_a_sq = 0 \/ norm_b_sq = 0 THEN Returned(FloatZero)
             ELSE LET corr == CorrelateValid(a, b)
                  IN  Returned(FloatSqrt(corr[1] * corr[1] + corr[2] * corr[2],
                                         norm_a_sq * norm_b_sq))

InitCorr ==
    /\ config = {}
    /\ op = "idle"
    /\ args \in [a : Signals, b : Signals]
    /\ ret = Idle

CallCorrelation ==
    /\ op = "idle"
    /\ op' = "normalized_cross_correlation"
    /\ ret' = normalized_cross_correlation(args.a, args.b)
    /\ UNCHANGED <<config, args>>

NextCorr == CallCorrelation

SpecCorr == InitCorr /\ [][NextCorr]_vars

AllZero(a) == \A k \in 1..Len(a) : a[k] = <<0, 0>>

\* C8: normalized_cross_correlation raises a ValueError whenever the lengths
\* differ, also for all-zero signals; for equal lengths it never fails, and
\* it returns exactly 0.0 when either signal is all-zero (or both are empty).
C8_CorrelationErrors ==
    op = "normalized_cross_correlation" =>
        IF Len(args.a) # Len(args.b)
          THEN ret.raised = "ValueError" /\ "value" \notin DOMAIN ret
          ELSE /\ ret.raised = ""
               /\ (AllZero(args.a) \/ AllZero(args.b)) => ret.value = FloatZero

C8_Witness ==
    /\ op = "normalized_cross_correlation"
    /\ Len(args.a) = 1
    /\ Len(args.b) = 2
    /\ AllZero(args.a)
    /\ ret.raised = "ValueError"

C8_WitnessZeroNorm ==
    /\ op = "normalized_cross_correlation"
    /\ Len(args.a) = 2
    /\ Len(args.b) = 2
    /\ AllZero(args.a)
    /\ ~AllZero(args.b)
    /\ ret = Returned(FloatZero)

====
